---------------------------- MODULE Spec2Model ----------------------------
(***************************************************************************)
(* A model of the scope engine (cfnlint/context/context.py) and of the     *)
(* shared intrinsic-function engine (cfnlint/rules/functions/_BaseFn.py).  *)
(*                                                                         *)
(* Python values are modelled as follows.  In Context and BaseFn a str is  *)
(* a TLA+ string, a dict whose order matters is a sequence of              *)
(* <<key, value>> pairs and a dict whose order does not matter is a        *)
(* function.  The values of a template (ContextManager, _expand_foreach,   *)
(* Parameter, fn_value) carry their Python type, and the text of a str is  *)
(* a sequence of symbols, so that a regular expression can rewrite it.     *)
(* Objects that Python shares by reference (ref_values, path) live in a    *)
(* heap and are named by their index.  An exception is the name of its     *)
(* class.                                                                  *)
(***************************************************************************)
EXTENDS Integers, Sequences, FiniteSets, TLC

VARIABLES
    \* Context objects and the heap of the mutable objects they point to
    ctxs, dicts, deques,
    \* One call of BaseFn.validate: its arguments and what its collaborators
    \* answer (fnIn), where the generator stands (fnPc), its locals, what it
    \* has yielded, the collaborators it has called, the exception it raised
    fnIn, fnPc, fnErrs, fnKey, fnArg, fnIdx, fnReturnErr, fnValue,
    fnYielded, fnCalls, fnExc,
    \* One call of _expand_foreach: its argument, and what came out
    expIn, expOut,
    \* One construction of a ContextManager: the template, the section it
    \* has reached, its tables, and the exception that left it
    mgrTemplate, mgrPc, parameters, resources, conditions, transforms, mgrExc,
    \* One value lookup: the definition of parameter P, the context's
    \* ref_values, the instance given to fn_value, the operation called and
    \* what it gave
    valDefinition, valRefValues, valInstance, valCall, valOut

ctxVars == <<ctxs, dicts, deques>>
fnVars == <<fnIn, fnPc, fnErrs, fnKey, fnArg, fnIdx, fnReturnErr, fnValue,
            fnYielded, fnCalls, fnExc>>
expVars == <<expIn, expOut>>
mgrVars == <<mgrTemplate, mgrPc, parameters, resources, conditions, transforms,
             mgrExc>>
valVars == <<valDefinition, valRefValues, valInstance, valCall, valOut>>
vars == <<ctxVars, fnVars, expVars, mgrVars, valVars>>

-----------------------------------------------------------------------------
(* Bounds of the model *)

MaxCtx == 3         \* Context objects alive at once
MaxAppends == 1     \* paths that hold a segment a caller appended afterwards
MaxTriples == 2     \* candidates resolve_value produces for one instance
MaxCollection == 2  \* items of a Fn::ForEach collection

-----------------------------------------------------------------------------
(* cfnlint.helpers constants, as context.py uses them *)

REGION_PRIMARY == "us-east-1"

PSEUDOPARAMS ==
    { "AWS::AccountId", "AWS::NotificationARNs", "AWS::NoValue",
      "AWS::Partition", "AWS::Region", "AWS::StackId", "AWS::StackName",
      "AWS::URLSuffix" }

\* Python values that carry their type: None, and str, int, bool, list and
\* dict.  n is the number of an int (0 and 1 for a bool), s the text of a str,
\* a sequence of symbols, and items the elements of a list or, in insertion
\* order, the entries of a dict, whose keys are the texts of strs
NoneValue == [t |-> "none", n |-> 0, s |-> <<>>, items |-> <<>>]
Str(text) == [t |-> "str", n |-> 0, s |-> text, items |-> <<>>]
Integer(n) == [t |-> "int", n |-> n, s |-> <<>>, items |-> <<>>]
Bool(b) == [t |-> "bool", n |-> IF b THEN 1 ELSE 0, s |-> <<>>, items |-> <<>>]
List(elements) ==
    [ t |-> "list", n |-> 0, s |-> <<>>,
      items |-> [i \in DOMAIN elements |-> [k |-> <<>>, val |-> elements[i]]] ]
Dict(pairs) ==
    [ t |-> "dict", n |-> 0, s |-> <<>>,
      items |-> [i \in DOMAIN pairs |-> [k |-> pairs[i][1], val |-> pairs[i][2]]] ]

\* len(v) of a str, a list or a dict
Size(v) == IF v.t = "str" THEN Len(v.s) ELSE Len(v.items)

Regions == {"us-east-1", "cn-north-1"}

-----------------------------------------------------------------------------
(* Pseudo-parameter resolver *)

_get_partition(region) ==
    IF region \in {"us-gov-east-1", "us-gov-west-1"} THEN "aws-us-gov"
    ELSE IF region \in {"cn-north-1", "cn-northwest-1"} THEN "aws-cn"
    ELSE "aws"

_get_pseudo_value(parameter, region) ==
    CASE parameter = "AWS::AccountId" -> "123456789012"
      [] parameter = "AWS::NotificationARNs" ->
            << "arn:" \o _get_partition(region) \o ":sns:" \o region
               \o ":123456789012:notification" >>
      [] parameter = "AWS::NoValue" -> NoneValue
      [] parameter = "AWS::Partition" -> _get_partition(region)
      [] parameter = "AWS::Region" -> region
      [] parameter = "AWS::StackId" ->
            "arn:" \o _get_partition(region) \o ":cloudformation:" \o region
            \o ":123456789012:stack/teststack/51af3dc0-da77-11e4-872e-1234567db123"
      [] parameter = "AWS::StackName" -> "teststack"
      [] parameter = "AWS::URLSuffix" ->
            IF region \in {"cn-north-1", "cn-northwest-1"}
            THEN "amazonaws.com.cn" ELSE "amazonaws.com"
      [] OTHER -> NoneValue

-----------------------------------------------------------------------------
(* Context: construction and evolve *)

EmptyDict == [k \in {} |-> <<>>]

\* dict.update: d overwritten by m
DictUpdate(d, m) ==
    [k \in DOMAIN d \cup DOMAIN m |-> IF k \in DOMAIN m THEN m[k] ELSE d[k]]

\* Context.__post_init__, the loop over PSEUDOPARAMS: it writes into the map
\* the new Context was handed
PostInitRefValues(d, region) ==
    DictUpdate(d, [pp \in PSEUDOPARAMS |-> <<_get_pseudo_value(pp, region)>>])

\* The keys and values the callers bind: Fn::Sub and Fn::ForEach names, and
\* a name that collides with a pseudo-parameter
RefKeys == {"X", "AWS::Region"}
OverrideValue == <<"a">>
WrittenKeys == {"X"}
WrittenValue == <<"w">>
Segments == {"Foo"}
AppendedSegments == {"Bar"}

OverrideMaps == UNION {[S -> {OverrideValue}] : S \in SUBSET RefKeys}

Given(v) == [has |-> TRUE, v |-> v]

\* The keyword arguments of evolve: each is given or absent
AllKwargs ==
    [ path : {[has |-> FALSE, v |-> ""]} \cup {Given(s) : s \in Segments},
      ref_values : {[has |-> FALSE, v |-> EmptyDict]}
                     \cup {Given(m) : m \in OverrideMaps},
      region : {[has |-> FALSE, v |-> ""]} \cup {Given(r) : r \in Regions} ]

NGiven(kw) == Cardinality({f \in DOMAIN kw : kw[f].has})

\* The calls the model makes: no keyword, one keyword, or a ref_values that
\* binds every key together with a new region
Kwargs ==
    {kw \in AllKwargs :
        \/ NGiven(kw) <= 1
        \/ /\ NGiven(kw) = 2 /\ kw.ref_values.has /\ kw.region.has
           /\ DOMAIN kw.ref_values.v = RefKeys}

\* A merge that forgets the parent's entries
EvolveRefValues_OverrideOnly(parentMap, kw) == kw.ref_values.v

\* evolve's ref_values branch: a copy of the parent's map, updated
EvolveRefValues(parentMap, kw) == DictUpdate(parentMap, kw.ref_values.v)

evolve(p, kw) ==
    LET self == ctxs[p]
        newPath == IF kw.path.has
                   THEN Append(deques[self.path], kw.path.v)
                   ELSE deques[self.path]
        region == IF kw.region.has THEN kw.region.v ELSE self.region
        pathId == Len(deques) + 1
        \* ref_values is copied only when the override is given; otherwise
        \* setdefault hands the child the parent's own dict
        copied == kw.ref_values.has
        dictId == IF copied THEN Len(dicts) + 1 ELSE self.ref_values
        child == [ region |-> region,
                   functions |-> self.functions,
                   path |-> pathId,
                   value_path |-> self.value_path,
                   ref_values |-> dictId,
                   resolved_value |-> self.resolved_value,
                   parent |-> p ]
    IN  /\ Len(ctxs) < MaxCtx
        /\ ctxs' = Append(ctxs, child)
        /\ deques' = Append(deques, newPath)
        /\ dicts' = IF copied
                    THEN Append(dicts, PostInitRefValues(
                             EvolveRefValues(dicts[self.ref_values], kw), region))
                    ELSE [dicts EXCEPT ![dictId] = PostInitRefValues(@, region)]

\* A caller binds a name in the ref_values map of context c
WriteRefValues(c, k, v) ==
    /\ dicts' = [dicts EXCEPT ![ctxs[c].ref_values] = DictUpdate(@, [x \in {k} |-> v])]
    /\ UNCHANGED <<ctxs, deques>>

HasAppended(d) == \E j \in DOMAIN d : d[j] \in AppendedSegments

Appended == Cardinality({i \in DOMAIN deques : HasAppended(deques[i])})

\* A caller appends a segment to the path of context c
AppendPath(c, seg) ==
    /\ Appended < MaxAppends
    /\ ~HasAppended(deques[ctxs[c].path])
    /\ deques' = [deques EXCEPT ![ctxs[c].path] = Append(@, seg)]
    /\ UNCHANGED <<ctxs, dicts>>

\* ContextManager.create_context_for_resources: a fresh root Context
create_context_for_resources(region) ==
    /\ ctxs = << [ region |-> region,
                   functions |-> <<>>,
                   path |-> 1,
                   value_path |-> 2,
                   ref_values |-> 1,
                   resolved_value |-> FALSE,
                   parent |-> 0 ] >>
    /\ deques = << <<"Resources">>, <<>> >>
    /\ dicts = << PostInitRefValues(EmptyDict, region) >>

InitContext == create_context_for_resources(REGION_PRIMARY)

IdleContext == ctxs = <<>> /\ dicts = <<>> /\ deques = <<>>

-----------------------------------------------------------------------------
(* Properties of Context *)

RefValuesOf(c) == dicts[ctxs[c].ref_values]
PathOf(c) == deques[ctxs[c].path]

RECURSIVE Ancestors(_)
Ancestors(c) ==
    IF ctxs[c].parent = 0 THEN {}
    ELSE {ctxs[c].parent} \cup Ancestors(ctxs[c].parent)

\* What a step leaves of context c as it was
Untouched(c) ==
    /\ RefValuesOf(c)' = RefValuesOf(c)
    /\ PathOf(c)' = PathOf(c)

\* The map given as the ref_values override; empty when none is given
OverrideOf(kw) == IF kw.ref_values.has THEN kw.ref_values.v ELSE EmptyDict

\* C1: evolve never mutates the parent.  An evolve call, whatever its
\* overrides, leaves the path and the ref_values of every existing Context as
\* they were, and a later write to a Context's ref_values map or path leaves
\* those of its ancestors as they were.
C1_EvolveNeverMutatesParent ==
    [][ /\ \A p \in DOMAIN ctxs, kw \in Kwargs :
              evolve(p, kw) => \A c \in DOMAIN ctxs : Untouched(c)
        /\ \A d \in DOMAIN ctxs, k \in WrittenKeys :
              WriteRefValues(d, k, WrittenValue)
                 => \A c \in Ancestors(d) : Untouched(c)
        /\ \A d \in DOMAIN ctxs, seg \in AppendedSegments :
              AppendPath(d, seg) => \A c \in Ancestors(d) : Untouched(c)
      ]_ctxVars

\* What evolve does to the fields other than ref_values: path is the
\* parent's path, followed by the override when one is given, and every
\* other field is the override or else the parent's value
EvolvedFields(p, kw) ==
    LET child == ctxs'[Len(ctxs) + 1]
    IN  /\ deques'[child.path] =
              IF kw.path.has THEN Append(PathOf(p), kw.path.v) ELSE PathOf(p)
        /\ child.region = IF kw.region.has THEN kw.region.v ELSE ctxs[p].region
        /\ child.functions = ctxs[p].functions
        /\ child.resolved_value = ctxs[p].resolved_value
        /\ child.value_path = ctxs[p].value_path

\* C9 as stated: the child's ref_values is the parent's map overwritten by
\* the override M, for every key of M, pseudo-parameter names included, and
\* every key outside M keeps the parent's entry.
C9_EvolveOverwritesWithOverride ==
    [][ \A p \in DOMAIN ctxs, kw \in Kwargs :
          evolve(p, kw) =>
            LET child == ctxs'[Len(ctxs) + 1]
                rv == dicts'[child.ref_values]
                M == OverrideOf(kw)
            IN  /\ kw.ref_values.has =>
                      /\ DOMAIN rv = DOMAIN RefValuesOf(p) \cup DOMAIN M
                      /\ \A k \in DOMAIN M : rv[k] = M[k]
                      /\ \A k \in DOMAIN RefValuesOf(p) \ DOMAIN M :
                            rv[k] = RefValuesOf(p)[k]
                /\ EvolvedFields(p, kw)
      ]_ctxVars

\* C9 as amended: the child's ref_values is the parent's map overwritten by
\* the override M and then by the pseudo-parameter values of the child's
\* region.  A key of M that is no pseudo-parameter name has M's value, every
\* pseudo-parameter name has the one-element list of its value for the
\* child's region, and every other key keeps the parent's entry; the path is
\* the parent's followed by the override, and the other fields are the
\* override or the parent's.
C9_EvolveMergesThenRebindsPseudo ==
    [][ \A p \in DOMAIN ctxs, kw \in Kwargs :
          evolve(p, kw) =>
            LET child == ctxs'[Len(ctxs) + 1]
                rv == dicts'[child.ref_values]
                M == OverrideOf(kw)
            IN  /\ DOMAIN rv = DOMAIN RefValuesOf(p) \cup DOMAIN M \cup PSEUDOPARAMS
                /\ \A k \in DOMAIN M \ PSEUDOPARAMS : rv[k] = M[k]
                /\ \A k \in PSEUDOPARAMS :
                      rv[k] = <<_get_pseudo_value(k, child.region)>>
                /\ \A k \in DOMAIN RefValuesOf(p) \ (DOMAIN M \cup PSEUDOPARAMS) :
                      rv[k] = RefValuesOf(p)[k]
                /\ EvolvedFields(p, kw)
      ]_ctxVars

\* A child made by evolve(path=..., ref_values={"X": ..., "AWS::Region": ...})
\* on a parent that binds X otherwise: the child binds X to the override, and
\* AWS::Region to its region
C9_Witness ==
    \E c \in DOMAIN ctxs :
        /\ ctxs[c].parent # 0
        /\ ctxs[c].ref_values # ctxs[ctxs[c].parent].ref_values
        /\ "X" \in DOMAIN RefValuesOf(c)
        /\ RefValuesOf(c)["X"] = OverrideValue
        /\ RefValuesOf(c)["AWS::Region"] = <<ctxs[c].region>>
        /\ "X" \in DOMAIN RefValuesOf(ctxs[c].parent)
        /\ RefValuesOf(ctxs[c].parent)["X"] = WrittenValue
        /\ \E g \in DOMAIN ctxs : ctxs[g].parent = c

-----------------------------------------------------------------------------
(* BaseFn: the shared validate / resolve algorithm *)

\* BaseFn.__init__: self.fn = ToPy(name), with fn.name and fn.py
FnName == "Fn::X"
FnPy == "fn_x"

\* Python's None among str values
PyNone == "<None>"

\* repr() of a str value or of None
Repr(v) == IF v = PyNone THEN "None" ELSE "'" \o v \o "'"

\* repr() of a dict, given as a sequence of <<key, value>> pairs
RECURSIVE ReprItems(_, _)
ReprItems(d, i) ==
    IF i > Len(d) THEN ""
    ELSE (IF i > 1 THEN ", " ELSE "")
         \o Repr(d[i][1]) \o ": " \o Repr(d[i][2]) \o ReprItems(d, i + 1)

ReprDict(d) == "{" \o ReprItems(d, 1) \o "}"

\* dict.get(name): None when the key is absent
DictGet(d, name) ==
    IF \E i \in DOMAIN d : d[i][1] = name
    THEN d[CHOOSE i \in DOMAIN d : d[i][1] = name][2]
    ELSE PyNone

\* A ValidationError: its message, as a sequence of words, and its validator
ValidationError(message, validator) ==
    [message |-> message, validator |-> validator]

\* None in a variable that holds a ValidationError
NoError == ValidationError(<<>>, "<None>")

\* The schema store, and the output schemas s the engine hands to validate:
\* a direct type, a list of types, a $ref to another schema, no type at all
SchemaStore ==
    << [kind |-> "type", type |-> <<"string">>],
       [kind |-> "type", type |-> <<"integer">>],
       [kind |-> "ref", ref |-> 2],
       [kind |-> "none"] >>

RECURSIVE resolve_type(_)
resolve_type(schema) ==
    IF schema.kind = "type" THEN schema.type
    ELSE IF schema.kind = "ref" THEN resolve_type(SchemaStore[schema.ref])
    ELSE <<>>

RECURSIVE JoinReprs(_, _)
JoinReprs(tS, i) ==
    IF i > Len(tS) THEN ""
    ELSE (IF i > 1 THEN ", " ELSE "") \o Repr(tS[i]) \o JoinReprs(tS, i + 1)

\* validate_fn_output_types; compatible is the answer of is_types_compatible
validate_fn_output_types(s, instance, compatible) ==
    LET tS == resolve_type(s)
    IN  IF tS # <<>> /\ ~compatible
        THEN << ValidationError(
                   <<ReprDict(instance), "is not of type", JoinReprs(tS, 1)>>, "") >>
        ELSE <<>>

\* fix_errors: every error but a "ref" error is relabelled with fn.py
fix_errors(errs) ==
    [i \in DOMAIN errs |->
        IF errs[i].validator \notin {"ref"}
        THEN [errs[i] EXCEPT !.validator = FnPy]
        ELSE errs[i]]

\* The instances validate is called with
Instances ==
    { <<>>,
      << <<FnName, "a">> >>,
      << <<"Other", "b">>, <<FnName, "a">> >> }

\* What descending into the argument with the default schema may report
ArgumentErrors ==
    { <<>>,
      << ValidationError(<<"'a'", "is not of type", "'string'">>, "type") >>,
      << ValidationError(<<"'a'", "is not of type", "'string'">>, "type"),
         ValidationError(<<"'a'", "is not a valid ref">>, "ref") >> }

\* The triples of resolve_value: a resolution error (its value is None), or
\* a candidate value that re-validates cleanly, with one error, with two
CandidateValues == {"a", "b"}
Triples ==
    {[value |-> PyNone, kind |-> "error"]}
       \cup [value : CandidateValues, kind : {"clean", "fail1", "fail2"}]

TripleSeqs == UNION {[1..n -> Triples] : n \in 0..MaxTriples}

\* The resolution error the i-th triple carries
ResolveErr(i) ==
    ValidationError(<<"candidate", ToString(i), "cannot be resolved">>, "resolve")

\* v.descend(instance=value, schema=s, path=key) for a candidate
Descend(t) ==
    LET e1 == ValidationError(<<Repr(t.value), "is not of type", "'integer'">>, "type")
        e2 == ValidationError(<<Repr(t.value), "is too long">>, "maxLength")
    IN  CASE t.kind = "fail1" -> <<e1>>
          [] t.kind = "fail2" -> <<e1, e2>>
          [] OTHER -> <<>>

\* str.replace on a message, word by word
Replace(message, old, new) ==
    [i \in DOMAIN message |-> IF message[i] = old THEN new ELSE message[i]]

InitBaseFn ==
    /\ fnIn \in [ instance : Instances,
                  s : {SchemaStore[i] : i \in {1, 3, 4}},
                  compatible : BOOLEAN,
                  argErrs : ArgumentErrors,
                  triples : TripleSeqs ]
    /\ fnPc = "start"
    /\ fnErrs = <<>>
    /\ fnKey = PyNone
    /\ fnArg = PyNone
    /\ fnIdx = 0
    /\ fnReturnErr = NoError
    /\ fnValue = PyNone
    /\ fnYielded = <<>>
    /\ fnCalls = {}
    /\ fnExc = "none"

\* validate, lines 133-135: the output-type check, collected into errs
ValidateOutputTypes ==
    /\ fnPc = "start"
    /\ fnErrs' = fix_errors(validate_fn_output_types(
                                fnIn.s, fnIn.instance, fnIn.compatible))
    /\ fnCalls' = fnCalls \cup {"resolve_type"}
    /\ fnPc' = "typed"
    /\ UNCHANGED <<fnIn, fnKey, fnArg, fnIdx, fnReturnErr, fnValue, fnYielded, fnExc>>

\* key_value: the first key, and the value under the function's name
key_value ==
    /\ fnPc = "typed"
    /\ IF Len(fnIn.instance) = 0
       THEN /\ fnPc' = "raised"
            /\ fnExc' = "IndexError"
            /\ UNCHANGED <<fnKey, fnArg>>
       ELSE /\ fnKey' = fnIn.instance[1][1]
            /\ fnArg' = DictGet(fnIn.instance, FnName)
            /\ fnPc' = "keyed"
            /\ UNCHANGED fnExc
    /\ UNCHANGED <<fnIn, fnErrs, fnIdx, fnReturnErr, fnValue, fnYielded, fnCalls>>

\* validate, lines 138-148: the argument against the default schema
ValidateArgument ==
    /\ fnPc = "keyed"
    /\ fnErrs' = fnErrs \o fix_errors(fnIn.argErrs)
    /\ fnCalls' = fnCalls \cup {"descend"}
    /\ fnPc' = "checked"
    /\ UNCHANGED <<fnIn, fnKey, fnArg, fnIdx, fnReturnErr, fnValue, fnYielded, fnExc>>

\* A validate that yields its errors and goes on to resolve
YieldErrors_NoReturn ==
    /\ fnPc = "checked"
    /\ fnErrs # <<>>
    /\ fnYielded' = fnErrs
    /\ fnCalls' = fnCalls \cup {"resolve_value"}
    /\ fnPc' = "resolving"
    /\ UNCHANGED <<fnIn, fnErrs, fnKey, fnArg, fnIdx, fnReturnErr, fnValue, fnExc>>

\* validate, lines 150-152: yield the errors and stop
YieldErrors ==
    /\ fnPc = "checked"
    /\ fnErrs # <<>>
    /\ fnYielded' = fnErrs
    /\ fnPc' = "done"
    /\ UNCHANGED <<fnIn, fnErrs, fnKey, fnArg, fnIdx, fnReturnErr, fnValue,
                   fnCalls, fnExc>>

\* validate, line 154, and resolve, lines 63-66: resolve_value is asked for
\* the triples
StartResolve ==
    /\ fnPc = "checked"
    /\ fnErrs = <<>>
    /\ fnCalls' = fnCalls \cup {"resolve_value"}
    /\ fnPc' = "resolving"
    /\ UNCHANGED <<fnIn, fnErrs, fnKey, fnArg, fnIdx, fnReturnErr, fnValue,
                   fnYielded, fnExc>>

\* A loop that does not stop at the candidate that validates
ResolveTriple_NoStop ==
    /\ fnPc = "resolving"
    /\ fnIdx < Len(fnIn.triples)
    /\ LET t == fnIn.triples[fnIdx + 1]
           errs == fix_errors(Descend(t))
       IN  /\ fnIdx' = fnIdx + 1
           /\ fnValue' = t.value
           /\ fnYielded' = IF t.kind = "error"
                           THEN Append(fnYielded, ResolveErr(fnIdx + 1))
                           ELSE fnYielded
           /\ fnReturnErr' = IF t.kind # "error" /\ errs # <<>>
                             THEN errs[1] ELSE fnReturnErr
           /\ UNCHANGED fnPc
    /\ UNCHANGED <<fnIn, fnErrs, fnKey, fnArg, fnCalls, fnExc>>

\* resolve, lines 66-83: one turn of the loop over the triples
ResolveTriple ==
    /\ fnPc = "resolving"
    /\ fnIdx < Len(fnIn.triples)
    /\ LET t == fnIn.triples[fnIdx + 1]
           errs == fix_errors(Descend(t))
       IN  /\ fnIdx' = fnIdx + 1
           /\ fnValue' = t.value
           /\ IF t.kind = "error"
              THEN /\ fnYielded' = Append(fnYielded, ResolveErr(fnIdx + 1))
                   /\ UNCHANGED <<fnReturnErr, fnPc>>
              ELSE IF errs = <<>>
              THEN /\ fnPc' = "done"
                   /\ UNCHANGED <<fnReturnErr, fnYielded>>
              ELSE /\ fnReturnErr' = errs[1]
                   /\ UNCHANGED <<fnYielded, fnPc>>
    /\ UNCHANGED <<fnIn, fnErrs, fnKey, fnArg, fnCalls, fnExc>>

\* resolve, lines 85-92: the triples are exhausted
ResolveExhausted ==
    /\ fnPc = "resolving"
    /\ fnIdx = Len(fnIn.triples)
    /\ fnYielded' =
          IF fnReturnErr # NoError
          THEN Append(fnYielded,
                  [fnReturnErr EXCEPT !.message =
                      Replace(@, Repr(fnValue), ReprDict(fnIn.instance))
                         \o <<"when", Repr(FnName), "is resolved">>])
          ELSE fnYielded
    /\ fnPc' = "done"
    /\ UNCHANGED <<fnIn, fnErrs, fnKey, fnArg, fnIdx, fnReturnErr, fnValue,
                   fnCalls, fnExc>>

IdleBaseFn ==
    /\ fnIn = <<>> /\ fnPc = "idle" /\ fnErrs = <<>> /\ fnKey = PyNone
    /\ fnArg = PyNone /\ fnIdx = 0 /\ fnReturnErr = NoError /\ fnValue = PyNone
    /\ fnYielded = <<>> /\ fnCalls = {} /\ fnExc = "none"

-----------------------------------------------------------------------------
(* Macro expansion: ContextManager._expand_foreach *)

FnForEach == "Fn::ForEach::"
Whitespace == {" "}

\* The length of the match of \${\s?<id>\s?} in key k at position i; 0 when
\* there is none
MatchLength(id, k, i) ==
    LET fits(ws1, ws2) ==
            LET n == 2 + ws1 + Len(id) + ws2 + 1
            IN  /\ i + n - 1 <= Len(k)
                /\ k[i] = "$"
                /\ k[i + 1] = "{"
                /\ ws1 = 1 => k[i + 2] \in Whitespace
                /\ SubSeq(k, i + 2 + ws1, i + 1 + ws1 + Len(id)) = id
                /\ ws2 = 1 => k[i + 2 + ws1 + Len(id)] \in Whitespace
                /\ k[i + n - 1] = "}"
        found == {3 + w[1] + Len(id) + w[2] :
                     w \in {y \in {0, 1} \X {0, 1} : fits(y[1], y[2])}}
    IN  IF found = {} THEN 0 ELSE CHOOSE n \in found : \A m \in found : m <= n

\* re.sub(rf"\${{\s?{id}\s?}}", iteration, k), from position i on
RECURSIVE ReSub(_, _, _, _)
ReSub(id, iteration, k, i) ==
    IF i > Len(k) THEN <<>>
    ELSE LET n == MatchLength(id, k, i)
         IN  IF n > 0 THEN iteration \o ReSub(id, iteration, k, i + n)
             ELSE <<k[i]>> \o ReSub(id, iteration, k, i + 1)

\* What a generator gave: the pairs it yielded and the exception that ended it
Yielded(out, exc) == [out |-> out, exc |-> exc]

\* The values argument: None becomes {}; otherwise the one-entry dict
\* {id: iterator}
NoValues == [has |-> FALSE, id |-> <<>>, iterator |-> NoneValue]
Binding(id, iterator) == [has |-> TRUE, id |-> id, iterator |-> iterator]

\* v[i] of a list or of a str (from 1)
Item(v, i) == IF v.t = "str" THEN Str(<<v.s[i]>>) ELSE v.items[i].val

\* The i-th thing iterating v gives: an element, a character, a key
Iterated(v, i) ==
    CASE v.t = "str" -> Str(<<v.s[i]>>)
      [] v.t = "dict" -> Str(v.items[i].k)
      [] OTHER -> v.items[i].val

Sized(v) == v.t \in {"str", "list", "dict"}

RECURSIVE _expand_foreach(_, _), ExpandItems(_, _, _), ExpandEntry(_, _),
          ForEachLoop(_, _, _, _)

\* Lines 321-322: the loop over the collection, from item i on
ForEachLoop(collection, i, output, id) ==
    IF i > Size(collection) THEN Yielded(<<>>, "none")
    ELSE LET r == _expand_foreach(output, Binding(id, Iterated(collection, i)))
         IN  IF r.exc # "none" THEN r
             ELSE LET rest == ForEachLoop(collection, i + 1, output, id)
                  IN  Yielded(r.out \o rest.out, rest.exc)

\* Lines 310-326: the try block for the entry (k, v)
ExpandEntry(k, v) ==
    IF ~(Len(k) > 0 /\ k[1] = FnForEach) THEN Yielded(<< <<k, v>> >>, "none")
    ELSE IF ~Sized(v) THEN Yielded(<<>>, "TypeError")
    ELSE IF Size(v) # 3 THEN Yielded(<<>>, "none")
    ELSE IF v.t = "dict" THEN Yielded(<<>>, "KeyError")
    ELSE LET id == Item(v, 1)
             collection == Item(v, 2)
             output == Item(v, 3)
         IN  IF id.t # "str" THEN Yielded(<<>>, "none")
             ELSE IF output.t # "dict" THEN Yielded(<<>>, "none")
             ELSE IF ~Sized(collection) THEN Yielded(<<>>, "TypeError")
             ELSE LET r == ForEachLoop(collection, 1, output, id.s)
                  IN  \* except ValueError: pass
                      IF r.exc = "ValueError" THEN Yielded(r.out, "none") ELSE r

\* Lines 307-326: the loop over the entries, from entry i on.  Line 308
\* iterates the keys of values and unpacks each key into (id, iteration)
ExpandItems(items, i, values) ==
    IF i > Len(items) THEN Yielded(<<>>, "none")
    ELSE IF values.has /\ Len(values.id) # 2 THEN Yielded(<<>>, "ValueError")
    ELSE LET k == IF values.has
                  THEN ReSub(<<values.id[1]>>, <<values.id[2]>>, items[i].k, 1)
                  ELSE items[i].k
             entry == ExpandEntry(k, items[i].val)
         IN  IF entry.exc # "none" THEN entry
             ELSE LET rest == ExpandItems(items, i + 1, values)
                  IN  Yielded(entry.out \o rest.out, rest.exc)

_expand_foreach(instance, values) ==
    IF instance.t # "dict" THEN Yielded(<<>>, "AttributeError")
    ELSE ExpandItems(instance.items, 1, values)

\* The Fn::ForEach entries expansion is asked for: an identifier of one, two
\* or three characters, a list of strings, an output of one or two entries
Identifiers == {<<"I">>, <<"I", "d">>, <<"I", "d", "x">>}
CollectionItems == {<<"A">>, <<"B">>}
Collections == UNION {[1..n -> CollectionItems] : n \in 0..MaxCollection}
TypeX == Dict(<< <<<<"Type">>, Str(<<"X">>)>> >>)
TypeY == Dict(<< <<<<"Type">>, Str(<<"Y">>)>> >>)

\* Keys that name the identifier: R${id}, R${ id }R, and one that does not
OutputKeys(id) ==
    { <<"R", "$", "{">> \o id \o <<"}">>,
      <<"R", "$", "{", " ">> \o id \o <<" ", "}", "R">>,
      <<"S">> }

Outputs(id) ==
    { << <<k, TypeX>> >> : k \in OutputKeys(id) }
       \cup { << <<ks[1], TypeX>>, <<ks[2], TypeY>> >> :
                 ks \in {p \in OutputKeys(id) \X OutputKeys(id) : p[1] # p[2]} }

ForEachEntry(id, collection, output) ==
    Dict(<< << <<FnForEach, "Loop">>,
               List(<< Str(id),
                       List([i \in DOMAIN collection |-> Str(collection[i])]),
                       Dict(output) >>) >> >>)

InitExpand ==
    /\ \E id \in Identifiers, collection \in Collections :
          \E output \in Outputs(id) :
              expIn = [ id |-> id, collection |-> collection, output |-> output ]
    /\ expOut = Yielded(<<>>, "pending")

Expand ==
    /\ expOut.exc = "pending"
    /\ expOut' = _expand_foreach(
                    ForEachEntry(expIn.id, expIn.collection, expIn.output),
                    NoValues)
    /\ UNCHANGED expIn

IdleExpand == expIn = <<>> /\ expOut = <<>>

-----------------------------------------------------------------------------
(* Symbol entities and ContextManager.__post_init__ *)

\* dict.get(key) of a Python dict value: None when the key is absent
Get(d, key) ==
    IF \E i \in DOMAIN d.items : d.items[i].k = key
    THEN d.items[CHOOSE i \in DOMAIN d.items : d.items[i].k = key].val
    ELSE NoneValue

Built(obj, exc) == [obj |-> obj, exc |-> exc]

\* Parameter.__post_init__
Parameter(parameter) ==
    IF parameter.t # "dict" THEN Built(NoneValue, "AttributeError")
    ELSE IF Get(parameter, <<"Type">>).t # "str" THEN Built(NoneValue, "ValueError")
    ELSE Built([ type |-> Get(parameter, <<"Type">>).s,
                 default |-> Get(parameter, <<"Default">>),
                 allowed_values |-> Get(parameter, <<"AllowedValues">>),
                 description |-> Get(parameter, <<"Description">>) ], "none")

\* Resource.__post_init__
Resource(resource) ==
    IF resource.t # "dict" THEN Built(NoneValue, "AttributeError")
    ELSE IF Get(resource, <<"Type">>).t # "str" THEN Built(NoneValue, "ValueError")
    ELSE Built([type |-> Get(resource, <<"Type">>).s], "none")

\* Condition(instance)
Condition(instance) == Built([instance |-> instance], "none")

Construct(class, v) ==
    CASE class = "Parameter" -> Parameter(v)
      [] class = "Resource" -> Resource(v)
      [] OTHER -> Condition(v)

\* Transforms.__post_init__
RECURSIVE TransformsLoop(_, _)
TransformsLoop(list, i) ==
    IF i > Size(list) THEN Built(<<>>, "none")
    ELSE IF Item(list, i).t # "str" THEN Built(<<>>, "ValueError")
    ELSE LET rest == TransformsLoop(list, i + 1)
         IN  Built(<<Item(list, i).s>> \o rest.obj, rest.exc)

Transforms(t) ==
    IF t.t = "none" THEN Built(<<>>, "none")
    ELSE IF t.t # "list" THEN TransformsLoop(List(<<t>>), 1)
    ELSE TransformsLoop(t, 1)

EmptyTable == [k \in {} |-> NoneValue]
Filled(table, exc) == [table |-> table, exc |-> exc]

\* for k, v in pairs: table[k] = class(v), from pair i on
RECURSIVE Fill(_, _, _, _)
Fill(class, pairs, i, table) ==
    IF i > Len(pairs) THEN Filled(table, "none")
    ELSE LET made == Construct(class, pairs[i][2])
         IN  IF made.exc # "none" THEN Filled(table, made.exc)
             ELSE Fill(class, pairs, i + 1,
                       DictUpdate(table, [k \in {pairs[i][1]} |-> made.obj]))

\* _init_parameters, _init_resources, _init_conditions: the section is
\* expanded and indexed entry by entry, until one of the two raises
InitSection(class, section) ==
    LET expanded == _expand_foreach(section, NoValues)
        filled == Fill(class, expanded.out, 1, EmptyTable)
    IN  IF filled.exc # "none" THEN filled
        ELSE Filled(filled.table, expanded.exc)

\* cfn.template.get(name, default)
TemplateGet(template, name, default) ==
    IF template[name].has THEN template[name].v ELSE default

\* The except clauses of __post_init__
Caught == {"ValueError", "AttributeError"}

Absent == [has |-> FALSE, v |-> NoneValue]
Present(v) == [has |-> TRUE, v |-> v]
StringParameter == Dict(<< <<<<"Type">>, Str(<<"String">>)>> >>)

\* The sections of the templates: absent, well formed, not a mapping, an
\* entry without a Type or with a Type that is no string, an entry that is
\* no mapping, Fn::ForEach entries well formed and malformed
ParametersSections ==
    { Absent,
      Present(Dict(<< <<<<"P">>, StringParameter>> >>)),
      Present(List(<< Str(<<"P">>) >>)),
      Present(Dict(<< <<<<"P">>, StringParameter>>,
                      <<<<"Q">>, Dict(<<>>)>>,
                      <<<<"Z">>, StringParameter>> >>)),
      Present(ForEachEntry(<<"I", "d">>, << <<"A">>, <<"B">> >>,
                 << << <<"P", "$", "{", "I", "d", "}">>, StringParameter >> >>)) }

ResourcesSections ==
    { Absent,
      Present(Dict(<< <<<<"R">>, TypeX>>, <<<<"S">>, TypeY>> >>)),
      Present(Str(<<"Resources">>)),
      Present(Dict(<< <<<<"R">>, Dict(<< <<<<"Type">>, Integer(5)>> >>)>> >>)),
      Present(Dict(<< <<<<"R">>, Str(<<"x">>)>> >>)),
      Present(Dict(<< <<<<"R">>, TypeX>>,
                      <<<<FnForEach, "L">>, List(<< Str(<<"I">>), List(<<>>) >>)>>,
                      <<<<"S">>, TypeY>> >>)),
      Present(Dict(<< <<<<"R">>, TypeX>>,
                      <<<<FnForEach, "L">>, Integer(5)>> >>)) }

TransformSections ==
    { Absent,
      Present(Str(<<"AWS::LanguageExtensions">>)),
      Present(List(<< Str(<<"AWS::Serverless-2016-10-31">>),
                      Str(<<"AWS::LanguageExtensions">>) >>)),
      Present(List(<< Str(<<"AWS::Serverless-2016-10-31">>), Integer(1) >>)),
      Present(Dict(<< <<<<"Name">>, Str(<<"AWS::Include">>)>> >>)) }

ConditionsSections ==
    { Absent,
      Present(Dict(<< <<<<"C">>, Dict(<< <<<<"Fn::Equals">>, List(<<>>)>> >>)>> >>)),
      Present(List(<<>>)) }

Unset == [set |-> FALSE, v |-> <<>>]

InitManager ==
    /\ mgrTemplate \in [ Parameters : ParametersSections,
                         Resources : ResourcesSections,
                         Transform : TransformSections,
                         Conditions : ConditionsSections ]
    /\ mgrPc = "parameters"
    /\ parameters = EmptyTable
    /\ resources = EmptyTable
    /\ conditions = EmptyTable
    /\ transforms = Unset
    /\ mgrExc = "none"

\* __post_init__, lines 290-293
InitParameters ==
    /\ mgrPc = "parameters"
    /\ LET r == InitSection("Parameter",
                   TemplateGet(mgrTemplate, "Parameters", Dict(<<>>)))
       IN  /\ parameters' = r.table
           /\ IF r.exc \in Caught \cup {"none"}
              THEN mgrPc' = "resources" /\ UNCHANGED mgrExc
              ELSE mgrPc' = "raised" /\ mgrExc' = r.exc
    /\ UNCHANGED <<mgrTemplate, resources, conditions, transforms>>

\* __post_init__, lines 294-297
InitResources ==
    /\ mgrPc = "resources"
    /\ LET r == InitSection("Resource",
                   TemplateGet(mgrTemplate, "Resources", Dict(<<>>)))
       IN  /\ resources' = r.table
           /\ IF r.exc \in Caught \cup {"none"}
              THEN mgrPc' = "transforms" /\ UNCHANGED mgrExc
              ELSE mgrPc' = "raised" /\ mgrExc' = r.exc
    /\ UNCHANGED <<mgrTemplate, parameters, conditions, transforms>>

\* __post_init__, line 298, and _init_transforms: no except clause
InitTransforms ==
    /\ mgrPc = "transforms"
    /\ LET t == TemplateGet(mgrTemplate, "Transform", List(<<>>))
           r == IF t.t \in {"str", "list"} THEN Transforms(t)
                ELSE Transforms(List(<<>>))
       IN  IF r.exc = "none"
           THEN /\ transforms' = [set |-> TRUE, v |-> r.obj]
                /\ mgrPc' = "conditions"
                /\ UNCHANGED mgrExc
           ELSE /\ mgrPc' = "raised"
                /\ mgrExc' = r.exc
                /\ UNCHANGED transforms
    /\ UNCHANGED <<mgrTemplate, parameters, resources, conditions>>

\* __post_init__, lines 299-302
InitConditions ==
    /\ mgrPc = "conditions"
    /\ LET r == InitSection("Condition",
                   TemplateGet(mgrTemplate, "Conditions", Dict(<<>>)))
       IN  /\ conditions' = r.table
           /\ IF r.exc \in Caught \cup {"none"}
              THEN mgrPc' = "done" /\ UNCHANGED mgrExc
              ELSE mgrPc' = "raised" /\ mgrExc' = r.exc
    /\ UNCHANGED <<mgrTemplate, parameters, resources, transforms>>

IdleManager ==
    /\ mgrTemplate = <<>> /\ mgrPc = "idle" /\ parameters = EmptyTable
    /\ resources = EmptyTable /\ conditions = EmptyTable
    /\ transforms = Unset /\ mgrExc = "none"

-----------------------------------------------------------------------------
(* Value lookup: Parameter.ref and Context.fn_value *)

\* bool(v)
Truthy(v) ==
    CASE v.t = "none" -> FALSE
      [] v.t \in {"bool", "int"} -> v.n # 0
      [] OTHER -> Size(v) > 0

\* What a generator gave to its consumer: the values, and the exception
\* with its message that ended it
Produced(out, exc, message) == [out |-> out, exc |-> exc, message |-> message]

\* Parameter.ref
ParameterRef(p) ==
    LET first == IF Truthy(p.default) THEN <<p.default>> ELSE <<>>
    IN  IF ~Truthy(p.allowed_values) THEN Produced(first, "none", <<>>)
        ELSE IF ~Sized(p.allowed_values) THEN Produced(first, "TypeError", <<>>)
        ELSE Produced(first \o [i \in 1..Size(p.allowed_values) |->
                                    Iterated(p.allowed_values, i)],
                      "none", <<>>)

\* repr() of a str, or of a list of values, as text
RECURSIVE ReprValue(_), ReprValues(_, _)
ReprValue(v) ==
    CASE v.t = "str" -> <<"'">> \o v.s \o <<"'">>
      [] v.t = "list" -> <<"[">> \o ReprValues(v.items, 1) \o <<"]">>
      [] v.t = "none" -> <<"None">>
      [] v.t = "bool" -> IF v.n # 0 THEN <<"True">> ELSE <<"False">>
      [] OTHER -> <<ToString(v.n)>>
ReprValues(items, i) ==
    IF i > Len(items) THEN <<>>
    ELSE ReprValue(items[i].val)
            \o (IF i < Len(items) THEN <<", ">> ELSE <<>>)
            \o ReprValues(items, i + 1)

\* The keys of a dict value, as list(d.keys()) gives them
Keys(d) == List([i \in DOMAIN d.items |-> Str(d.items[i].k)])

\* A name is a str of one symbol; ref_values is keyed by the symbol
InRefValues(v, ref_values) ==
    v.t = "str" /\ Len(v.s) = 1 /\ v.s[1] \in DOMAIN ref_values

\* Context.fn_value, on a context holding table (parameters) and ref_values
fn_value(instance, table, ref_values) ==
    IF Size(instance) # 1
    THEN Produced(<<>>, "ValueError",
                  <<"Fn::Value can only have one key, got: ">>
                     \o ReprValue(Keys(instance)))
    ELSE LET k == instance.items[1].k
             v == instance.items[1].val
         IN  IF k = <<"Ref">>
             THEN LET known == IF InRefValues(v, ref_values)
                               THEN <<ref_values[v.s[1]]>> ELSE <<>>
                  IN  IF v.t = "str" /\ v.s \in DOMAIN table
                      THEN LET r == ParameterRef(table[v.s])
                           IN  Produced(known \o r.out, r.exc, r.message)
                      ELSE Produced(known, "none", <<>>)
             ELSE IF k = <<"Fn::FindInMap">>
             THEN \* Context has no fn_find_in_map
                  Produced(<<>>, "AttributeError", <<>>)
             ELSE Produced(<<>>, "ValueError",
                           <<"Unsupported value ">> \o ReprValue(v))

\* The parameter definitions: every Default with every AllowedValues
Defaults ==
    { <<>> } \cup
    { << <<<<"Default">>, d>> >> :
         d \in {Integer(0), Integer(5), Bool(FALSE), Str(<<>>), Str(<<"d">>)} }
AllowedValues ==
    { <<>>,
      << <<<<"AllowedValues">>, List(<<>>)>> >>,
      << <<<<"AllowedValues">>, List(<< Str(<<"x">>), Str(<<"y">>) >>)>> >> }
Definitions ==
    { Dict(<< <<<<"Type">>, Str(<<"String">>)>> >> \o d \o a) :
         d \in Defaults, a \in AllowedValues }

\* The instances fn_value is given
RefTargets == {"P", "X", "AWS::Region", "Missing"}
FnInstances ==
    { Dict(<<>>),
      Dict(<< <<<<"Ref">>, Str(<<"X">>)>>, <<<<"Fn::FindInMap">>, Str(<<"Y">>)>> >>),
      Dict(<< <<<<"Fn::Join">>, List(<< Str(<<"-">>),
                                     List(<< Str(<<"a">>), Str(<<"b">>) >>) >>)>> >>),
      Dict(<< <<<<"Fn::GetAtt">>, Str(<<"R.Arn">>)>> >>),
      Dict(<< <<<<"Fn::FindInMap">>, List(<< Str(<<"M">>) >>)>> >>) }
       \cup { Dict(<< <<<<"Ref">>, Str(<<name>>)>> >>) : name \in RefTargets }

\* The parameters table of the context: P, built from its definition
ParametersOf(definition) == [k \in {<<"P">>} |-> Parameter(definition).obj]

InitValue ==
    /\ valDefinition \in Definitions
    /\ \E m \in {EmptyDict} \cup OverrideMaps :
          valRefValues = PostInitRefValues(m, REGION_PRIMARY)
    /\ valInstance \in FnInstances
    /\ valCall = "none"
    /\ valOut = Produced(<<>>, "none", <<>>)

CallRef ==
    /\ valCall = "none"
    /\ valCall' = "ref"
    /\ valOut' = ParameterRef(Parameter(valDefinition).obj)
    /\ UNCHANGED <<valDefinition, valRefValues, valInstance>>

CallFnValue ==
    /\ valCall = "none"
    /\ valCall' = "fn_value"
    /\ valOut' = fn_value(valInstance, ParametersOf(valDefinition), valRefValues)
    /\ UNCHANGED <<valDefinition, valRefValues, valInstance>>

IdleValue ==
    /\ valDefinition = NoneValue /\ valRefValues = EmptyDict
    /\ valInstance = NoneValue /\ valCall = "idle"
    /\ valOut = Produced(<<>>, "none", <<>>)

-----------------------------------------------------------------------------
(* Properties of BaseFn *)

\* The errors of the type check and of the argument validation, as the
\* collaborators reported them, relabelled
TypeErrors ==
    IF resolve_type(fnIn.s) # <<>> /\ ~fnIn.compatible
    THEN << ValidationError(
               << ReprDict(fnIn.instance), "is not of type",
                  JoinReprs(resolve_type(fnIn.s), 1) >>, FnPy) >>
    ELSE <<>>

ArgErrors ==
    [i \in DOMAIN fnIn.argErrs |->
        IF fnIn.argErrs[i].validator = "ref" THEN fnIn.argErrs[i]
        ELSE ValidationError(fnIn.argErrs[i].message, FnPy)]

\* C4: resolution is attempted only after a clean type check and a clean
\* argument validation.  When either reports an error, validate yields
\* exactly those errors, the type error first, and resolve_value is never
\* called; an incompatible output type alone gives exactly one error.
C4_NoResolutionAfterErrors ==
    /\ "resolve_value" \in fnCalls => TypeErrors \o ArgErrors = <<>>
    /\ (fnPc = "done" /\ TypeErrors \o ArgErrors # <<>>) =>
          /\ fnYielded = TypeErrors \o ArgErrors
          /\ "resolve_value" \notin fnCalls
    /\ (fnPc = "done" /\ TypeErrors # <<>> /\ fnIn.argErrs = <<>>) =>
          /\ Len(fnYielded) = 1
          /\ fnYielded[1].message[2] = "is not of type"

\* validate has ended with a type error followed by an argument error, and
\* there were candidates to resolve
C4_Witness ==
    /\ fnPc = "done"
    /\ Len(fnIn.instance) = 1
    /\ TypeErrors # <<>>
    /\ fnIn.argErrs # <<>>
    /\ Len(fnYielded) = 1 + Len(fnIn.argErrs)
    /\ Len(fnIn.triples) > 0
    /\ fnIdx = 0

Clean(i) == fnIn.triples[i].kind = "clean"
Failed(i) == fnIn.triples[i].kind \in {"fail1", "fail2"}

\* The first candidate that re-validates cleanly; 0 when there is none
FirstClean ==
    IF \E i \in DOMAIN fnIn.triples : Clean(i)
    THEN CHOOSE i \in DOMAIN fnIn.triples :
            Clean(i) /\ \A j \in 1..(i - 1) : ~Clean(j)
    ELSE 0

\* The resolution errors of the first n triples, in order
RECURSIVE ResolutionErrors(_)
ResolutionErrors(n) ==
    IF n = 0 THEN <<>>
    ELSE IF fnIn.triples[n].kind = "error"
         THEN Append(ResolutionErrors(n - 1), ResolveErr(n))
         ELSE ResolutionErrors(n - 1)

Resolved == fnPc = "done" /\ "resolve_value" \in fnCalls

\* The error resolve makes of a candidate's failure: relabelled, and ending
\* with the clause that names the function
IsValidationFailure(e) ==
    /\ e.validator = FnPy
    /\ Len(e.message) > 3
    /\ SubSeq(e.message, Len(e.message) - 2, Len(e.message)) =
          <<"when", Repr(FnName), "is resolved">>

\* C5: resolve has OR semantics.  The triples are taken in order up to the
\* first candidate that re-validates cleanly, none after it is examined, and
\* then only the resolution errors met before it are yielded.  With no such
\* candidate, all resolution errors are yielded in order, followed by
\* exactly one validation-failure error if and only if some candidate failed
\* its re-validation.
C5_ResolveOrSemantics ==
    Resolved =>
        IF FirstClean # 0
        THEN /\ fnIdx = FirstClean
             /\ fnYielded = ResolutionErrors(FirstClean)
        ELSE LET n == Len(fnIn.triples)
                 res == ResolutionErrors(n)
             IN  /\ fnIdx = n
                 /\ IF \E i \in 1..n : Failed(i)
                    THEN /\ Len(fnYielded) = Len(res) + 1
                         /\ SubSeq(fnYielded, 1, Len(res)) = res
                         /\ IsValidationFailure(fnYielded[Len(res) + 1])
                    ELSE fnYielded = res

\* Two candidates, of which only the second validates: resolve has ended and
\* validate has yielded no error
C5_Witness ==
    /\ Resolved
    /\ Len(fnIn.triples) = 2
    /\ Failed(1)
    /\ Clean(2)
    /\ fnIdx = 2
    /\ fnYielded = <<>>

\* C6: validate fails with a hard error, before any type check, argument
\* validation or resolution and before yielding anything, whenever instance
\* does not have exactly one key.
C6_ShapeErrorUnlessOneKey ==
    (Len(fnIn.instance) # 1 /\ fnPc # "start") =>
        /\ fnPc = "raised"
        /\ fnCalls = {}
        /\ fnYielded = <<>>

\* The last candidate that failed its re-validation; 0 when there is none
LastFailed ==
    IF \E i \in DOMAIN fnIn.triples : Failed(i)
    THEN CHOOSE i \in DOMAIN fnIn.triples :
            Failed(i) /\ \A j \in (i + 1)..Len(fnIn.triples) : ~Failed(j)
    ELSE 0

\* C10: when the candidates are exhausted without a success, the
\* error yielded last is the first error of the last candidate that failed
\* re-validation, with the representation of that candidate's value replaced
\* by the representation of the instance, followed by "when <function name>
\* is resolved".
C10_ReportsLastFailedCandidate ==
    (Resolved /\ FirstClean = 0 /\ LastFailed # 0) =>
        LET t == fnIn.triples[LastFailed]
            first == Descend(t)[1]
        IN  /\ fnYielded # <<>>
            /\ fnYielded[Len(fnYielded)].message =
                  Replace(first.message, Repr(t.value), ReprDict(fnIn.instance))
                     \o <<"when", Repr(FnName), "is resolved">>

-----------------------------------------------------------------------------
(* Properties of macro expansion *)

\* The pairs the items of collection, from item i on, make of output: for
\* each item in order and each (k, v) of output in order, k with every
\* ${id} replaced by the item, and v
RECURSIVE ExpectedPairs(_, _, _, _)
ExpectedPairs(id, collection, i, output) ==
    IF i > Len(collection) THEN <<>>
    ELSE [j \in DOMAIN output |->
             <<ReSub(id, collection[i], output[j][1], 1), output[j][2]>>]
            \o ExpectedPairs(id, collection, i + 1, output)

\* C2: expanding a Fn::ForEach entry [identifier, collection, output] yields,
\* for each item of the collection in order and each (k, v) of output in
\* order, the pair (k with every ${identifier} replaced by the item, v), and
\* nothing else, whatever the length of the identifier
C2_ForEachYieldsSubstitutedPairs ==
    expOut.exc # "pending" =>
        expOut = Yielded(ExpectedPairs(expIn.id, expIn.collection, 1,
                                       expIn.output), "none")

-----------------------------------------------------------------------------
(* Properties of ContextManager construction *)

\* A section every entry of which the class accepts, under keys that are no
\* Fn::ForEach keys; an absent section is the empty mapping
Section(name) == TemplateGet(mgrTemplate, name, Dict(<<>>))
WellFormed(class, section) ==
    /\ section.t = "dict"
    /\ \A i \in DOMAIN section.items :
          /\ section.items[i].k[1] # FnForEach
          /\ Construct(class, section.items[i].val).exc = "none"
KeysOf(section) == {section.items[i].k : i \in DOMAIN section.items}
FullyIndexed(class, section, table) ==
    WellFormed(class, section) => DOMAIN table = KeysOf(section)
EmptyWhenNoMapping(section, table) ==
    section.t # "dict" => table = EmptyTable

\* C3: the construction of a ContextManager never raises; once it is over
\* every well-formed section is fully indexed, and a section that is no
\* mapping is left empty
C3_ConstructionNeverRaises ==
    /\ mgrPc # "raised"
    /\ mgrPc = "done" =>
          /\ FullyIndexed("Parameter", Section("Parameters"), parameters)
          /\ FullyIndexed("Resource", Section("Resources"), resources)
          /\ FullyIndexed("Condition", Section("Conditions"), conditions)
          /\ EmptyWhenNoMapping(Section("Parameters"), parameters)
          /\ EmptyWhenNoMapping(Section("Resources"), resources)
          /\ EmptyWhenNoMapping(Section("Conditions"), conditions)

-----------------------------------------------------------------------------
(* Properties of value lookup *)

Contains(text, part) ==
    \E i \in 1..(Len(text) - Len(part) + 1) :
        SubSeq(text, i, i + Len(part) - 1) = part

HasKey(d, key) == \E i \in DOMAIN d.items : d.items[i].k = key

\* C7: fn_value on a one-key mapping whose key is neither Ref nor
\* Fn::FindInMap fails with a value error whose message names the key; on a
\* mapping of zero or several keys it fails with a shape error; on {Ref: X}
\* with X neither a parameter nor in ref_values it yields nothing, no error
C7_FnValueErrorsNameTheKey ==
    valCall = "fn_value" =>
        /\ Size(valInstance) # 1 => valOut.exc = "ValueError" /\ valOut.out = <<>>
        /\ ( /\ Size(valInstance) = 1
             /\ valInstance.items[1].k \notin {<<"Ref">>, <<"Fn::FindInMap">>} )
              => /\ valOut.exc = "ValueError"
                 /\ Contains(valOut.message, valInstance.items[1].k)
        /\ ( /\ Size(valInstance) = 1
             /\ valInstance.items[1].k = <<"Ref">>
             /\ valInstance.items[1].val.s \notin DOMAIN ParametersOf(valDefinition)
             /\ ~InRefValues(valInstance.items[1].val, valRefValues) )
              => valOut = Produced(<<>>, "none", <<>>)

\* C8: Parameter.ref yields the Default whenever the definition has one,
\* falsy or not, then every entry of AllowedValues in declared order, and
\* nothing exactly when the definition has neither
C8_RefYieldsDefaultThenAllowedValues ==
    valCall = "ref" =>
        LET default == IF HasKey(valDefinition, <<"Default">>)
                       THEN <<Get(valDefinition, <<"Default">>)>> ELSE <<>>
            allowed == IF HasKey(valDefinition, <<"AllowedValues">>)
                       THEN [i \in 1..Size(Get(valDefinition, <<"AllowedValues">>)) |->
                                Item(Get(valDefinition, <<"AllowedValues">>), i)]
                       ELSE <<>>
        IN  /\ valOut = Produced(default \o allowed, "none", <<>>)
            /\ valOut.out = <<>> <=>
                  /\ ~HasKey(valDefinition, <<"Default">>)
                  /\ allowed = <<>>

-----------------------------------------------------------------------------
(* Specifications *)

\* Contexts evolving from the one a ContextManager creates
NextContext ==
    \/ /\ \E p \in DOMAIN ctxs, kw \in Kwargs : evolve(p, kw)
       /\ UNCHANGED <<fnVars, expVars, mgrVars, valVars>>
    \/ /\ \E c \in DOMAIN ctxs, k \in WrittenKeys :
             WriteRefValues(c, k, WrittenValue)
       /\ UNCHANGED <<fnVars, expVars, mgrVars, valVars>>
    \/ /\ \E c \in DOMAIN ctxs, seg \in AppendedSegments : AppendPath(c, seg)
       /\ UNCHANGED <<fnVars, expVars, mgrVars, valVars>>

StartContext ==
    InitContext /\ IdleBaseFn /\ IdleExpand /\ IdleManager /\ IdleValue

SpecContext ==
    /\ StartContext
    /\ [][NextContext]_vars

\* One call of BaseFn.validate
NextBaseFn ==
    \/ ValidateOutputTypes /\ UNCHANGED <<ctxVars, expVars, mgrVars, valVars>>
    \/ key_value /\ UNCHANGED <<ctxVars, expVars, mgrVars, valVars>>
    \/ ValidateArgument /\ UNCHANGED <<ctxVars, expVars, mgrVars, valVars>>
    \/ YieldErrors /\ UNCHANGED <<ctxVars, expVars, mgrVars, valVars>>
    \/ StartResolve /\ UNCHANGED <<ctxVars, expVars, mgrVars, valVars>>
    \/ ResolveTriple /\ UNCHANGED <<ctxVars, expVars, mgrVars, valVars>>
    \/ ResolveExhausted /\ UNCHANGED <<ctxVars, expVars, mgrVars, valVars>>

StartBaseFn ==
    InitBaseFn /\ IdleContext /\ IdleExpand /\ IdleManager /\ IdleValue

SpecBaseFn ==
    /\ StartBaseFn
    /\ [][NextBaseFn]_vars

\* One call of _expand_foreach
NextExpand == Expand /\ UNCHANGED <<ctxVars, fnVars, mgrVars, valVars>>

StartExpand ==
    InitExpand /\ IdleContext /\ IdleBaseFn /\ IdleManager /\ IdleValue

SpecExpand ==
    /\ StartExpand
    /\ [][NextExpand]_vars

\* One construction of a ContextManager
NextManager ==
    \/ InitParameters /\ UNCHANGED <<ctxVars, fnVars, expVars, valVars>>
    \/ InitResources /\ UNCHANGED <<ctxVars, fnVars, expVars, valVars>>
    \/ InitTransforms /\ UNCHANGED <<ctxVars, fnVars, expVars, valVars>>
    \/ InitConditions /\ UNCHANGED <<ctxVars, fnVars, expVars, valVars>>

StartManager ==
    InitManager /\ IdleContext /\ IdleBaseFn /\ IdleExpand /\ IdleValue

SpecManager ==
    /\ StartManager
    /\ [][NextManager]_vars

\* One value lookup
NextValue ==
    \/ CallRef /\ UNCHANGED <<ctxVars, fnVars, expVars, mgrVars>>
    \/ CallFnValue /\ UNCHANGED <<ctxVars, fnVars, expVars, mgrVars>>

StartValue ==
    InitValue /\ IdleContext /\ IdleBaseFn /\ IdleExpand /\ IdleManager

SpecValue ==
    /\ StartValue
    /\ [][NextValue]_vars

=============================================================================
